---- MODULE Spec2Model ----
(***************************************************************************)
(* A model of the audio core of parodypop-ai-fixed/services/audioService.ts *)
(*                                                                         *)
(*   Spec     the transport of AudioEngine: play / stop / reset /          *)
(*            setVolume / resume, the audio clock, and the asynchronous    *)
(*            'ended' callbacks of the buffer sources.                     *)
(*   SpecWav  the container encoder bufferToWav, run on a bounded family   *)
(*            of input buffers.                                            *)
(*                                                                         *)
(* Time is counted in quarter seconds: the 0.5 s guard band of the onended *)
(* handler is 2 ticks, so a position strictly inside the last half second  *)
(* of a track (D - 1) exists in the model.                                 *)
(***************************************************************************)
EXTENDS Integers, Sequences, FiniteSets

(* ------------------------------ bounds -------------------------------- *)

\* The audio clock stops advancing here (quarter seconds).
MaxClock == 5

\* play() is called at most this many times in one behaviour.
MaxSessions == 3

\* Buffer durations offered to play(), in quarter seconds: MinDur..MaxDur.
MinDur == 3

MaxDur == 4

(* ------------------------- program constants --------------------------- *)

\* The 0.5 s of `startTime + buffer.duration - 0.5`, in quarter seconds.
GuardBand == 2

Durations == MinDur..MaxDur

\* Volumes offered to play() and setVolume(), in percent.
Volumes == {80, 100}

VARIABLES
    \* ---- AudioContext
    clock,            \* audioContext.currentTime
    ctxState,         \* audioContext.state: "suspended" | "running"
    \* ---- AudioEngine fields
    isPlaying,        \* this.isPlaying
    startTime,        \* this.startTime
    pauseTime,        \* this.pauseTime
    backingSource,    \* this.backingSource: 0 is null, else an index of sess
    backingGainNode,  \* this.backingGainNode: 0 is null, else an index of sess
    \* ---- the audio graph
    sess,             \* the per-session nodes made by each play(), in order
    masterInputs,     \* sessions whose per-track gain is connected to this.gainNode
    chain,            \* the connections made by the constructor
    \* ---- history (not program state)
    lastOp,           \* the step that led here, when it was a stop() of a playing
                      \* engine ("stop") or of an idle one ("stopIdle"), a reset()
                      \* or the 'ended' callback of the held source after it
                      \* played to its end ("endedNatural"); else "other"
    stopPos,          \* position at the latest stop() of a sounding engine, -1 if
                      \* a play() or reset() came after it
    resumePos,        \* stopPos in force when the play() of the current session
                      \* was called, -1 if none was or a stop()/reset() came since
    \* ---- bufferToWav
    wavPc,            \* "off" | "start" | "frames" | "done"
    wavBuffer,        \* the AudioBuffer argument
    wavView,          \* the bytes of bufferArr
    wavPos,           \* pos
    wavOffset,        \* offset
    \* ---- one call of a pure function each: a record whose pc is "off" while
    \* the function is not under study
    det,              \* detectVocalStartTime
    kar,              \* createKaraokeBuffer
    lyr,              \* generateParodyLyrics
    exp,              \* exportTrack
    \* ---- the App component: a record whose pc is "off" while the App is
    \* not under study
    app               \* isPlaying, backingBuffer, karaokeMode, backingVolume

transportVars == <<clock, ctxState, isPlaying, startTime, pauseTime, backingSource,
                   backingGainNode, sess, masterInputs, chain, lastOp, stopPos,
                   resumePos>>

wavVars == <<wavPc, wavBuffer, wavView, wavPos, wavOffset>>

callVars == <<det, kar, lyr, exp>>

vars == <<transportVars, wavVars, callVars, app>>

(* ----------------------------- AudioEngine ----------------------------- *)

\* Main Gain -> Compressor -> Analyser -> Dest
ConstructorChain ==
    { <<"gainNode", "compressorNode">>,
      <<"compressorNode", "analyser">>,
      <<"analyser", "destination">> }

\* JavaScript's %: the sign of the result is the sign of the dividend.
JsMod(a, b) == IF a >= 0 THEN a % b ELSE -((-a) % b)

\* Mutant of PlayOffset: the offset is not reduced modulo the duration.
PlayOffsetWhole(pt, dur) == pt

\* const offset = this.pauseTime % buffer.duration
PlayOffset(pt, dur) == JsMod(pt, dur)

\* The clock reading at which a started source reaches the end of its buffer.
EndAt(s) == s.startedAt + s.dur - s.offset

Sounding(i) == sess[i].status = "playing"

\* A source that no longer sounds: the arguments of its start() call decide
\* nothing any more and are dropped from the state. The buffer its onended
\* handler closed over stays until the handler has run ("done"); by then the
\* session's filter has no input left and is dropped too.
Ended(s, how) ==
    [s EXCEPT !.status = how, !.startedAt = 0, !.offset = 0,
              !.dur = IF how = "done" THEN 0 ELSE @,
              !.filter = IF how = "done" THEN FALSE ELSE @]

\* A per-track gain the engine holds no handle to can never be retargeted
\* again: its value is dropped from the state.
Unheld(ss, g) == IF g # 0 THEN [ss EXCEPT ![g].gain = 0] ELSE ss

\* backingSource.stop(): a sounding source is halted and its 'ended' event is
\* queued; on a source that has already finished it changes nothing.
StopSources(ss, bs) ==
    IF bs # 0 /\ ss[bs].status = "playing"
    THEN [ss EXCEPT ![bs] = Ended(ss[bs], "halted")]
    ELSE ss

\* Mutant of StopPauseTime: the `if (this.isPlaying)` guard is lost.
StopPauseTimeUnguarded(playing, pt) == clock - startTime

\* if (this.isPlaying) { this.pauseTime = currentTime - this.startTime; ... }
StopPauseTime(playing, pt) == IF playing THEN clock - startTime ELSE pt

\* getCurrentTime()
GetCurrentTime ==
    IF isPlaying /\ startTime > 0 THEN clock - startTime ELSE pauseTime

\* Mutant of OnEndedFires: the guard band is added instead of subtracted.
OnEndedFiresLate(dur) == clock > startTime + dur + GuardBand

\* The condition of the onended handler, for the buffer the handler closed over.
OnEndedFires(dur) == clock > startTime + dur - GuardBand


InitTransport ==
    /\ clock = 0
    /\ ctxState \in {"suspended", "running"}
    /\ isPlaying = FALSE
    /\ startTime = 0
    /\ pauseTime = 0
    /\ backingSource = 0
    /\ backingGainNode = 0
    /\ sess = <<>>
    /\ masterInputs = {}
    /\ chain = ConstructorChain
    /\ lastOp = "other"
    /\ stopPos = -1
    /\ resumePos = -1

WavOff ==
    /\ wavPc = "off"
    /\ wavBuffer = [numberOfChannels |-> 0, length |-> 0, sampleRate |-> 0,
                    channels |-> <<>>]
    /\ wavView = <<>>
    /\ wavPos = 0
    /\ wavOffset = 0

DetOff == det = [pc |-> "off"]

KarOff == kar = [pc |-> "off"]

LyrOff == lyr = [pc |-> "off"]

ExpOff == exp = [pc |-> "off"]

AppOff == app = [pc |-> "off"]

Init == InitTransport /\ WavOff /\ DetOff /\ KarOff /\ LyrOff /\ ExpOff /\ AppOff

\* play(buffer, useKaraokeMode, volume)
Play(dur, karaoke, volume) ==
    /\ Len(sess) < MaxSessions
    /\ LET stopped == IF isPlaying THEN StopSources(sess, backingSource) ELSE sess
           pt      == IF isPlaying THEN StopPauseTime(isPlaying, pauseTime)
                      ELSE pauseTime
           now     == clock
           offset  == PlayOffset(pt, dur)
           node    == [status |-> "playing", dur |-> dur, startedAt |-> now,
                       offset |-> offset, filter |-> karaoke, gain |-> volume]
           id      == Len(sess) + 1
       IN  /\ ctxState' = "running"
           /\ sess' = Append(Unheld(stopped, backingGainNode), node)
           /\ backingSource' = id
           /\ backingGainNode' = id
           /\ masterInputs' = masterInputs \cup {id}
           /\ pauseTime' = pt
           /\ startTime' = now - offset
           /\ isPlaying' = TRUE
           /\ resumePos' = stopPos
    /\ stopPos' = -1
    /\ lastOp' = "other"
    /\ UNCHANGED <<clock, chain>>

\* stop()
Stop ==
    /\ sess' = StopSources(sess, backingSource)
    /\ backingSource' = 0
    /\ pauseTime' = StopPauseTime(isPlaying, pauseTime)
    /\ isPlaying' = FALSE
    /\ stopPos' = IF isPlaying /\ backingSource # 0 /\ Sounding(backingSource)
                  THEN sess[backingSource].offset
                       + (clock - sess[backingSource].startedAt)
                  ELSE stopPos
    /\ resumePos' = -1
    /\ lastOp' = IF isPlaying THEN "stop" ELSE "stopIdle"
    /\ UNCHANGED <<clock, ctxState, startTime, backingGainNode, masterInputs, chain>>

\* Mutant of Reset: the stop() is made, the `this.pauseTime = 0` is lost.
ResetKeepsOffset ==
    /\ sess' = StopSources(sess, backingSource)
    /\ backingSource' = 0
    /\ pauseTime' = StopPauseTime(isPlaying, pauseTime)
    /\ isPlaying' = FALSE
    /\ stopPos' = -1
    /\ resumePos' = -1
    /\ lastOp' = "reset"
    /\ UNCHANGED <<clock, ctxState, startTime, backingGainNode, masterInputs, chain>>

\* reset() { this.stop(); this.pauseTime = 0; }
Reset ==
    /\ sess' = StopSources(sess, backingSource)
    /\ backingSource' = 0
    /\ pauseTime' = 0
    /\ isPlaying' = FALSE
    /\ stopPos' = -1
    /\ resumePos' = -1
    /\ lastOp' = "reset"
    /\ UNCHANGED <<clock, ctxState, startTime, backingGainNode, masterInputs, chain>>

\* setVolume(volume)
SetVolume(volume) ==
    /\ sess' = IF backingGainNode # 0
               THEN [sess EXCEPT ![backingGainNode].gain = volume]
               ELSE sess
    /\ lastOp' = "other"
    /\ UNCHANGED <<clock, ctxState, isPlaying, startTime, pauseTime, backingSource,
                   backingGainNode, masterInputs, chain, stopPos, resumePos>>

\* resume()
Resume ==
    /\ ctxState' = "running"
    /\ lastOp' = "other"
    /\ UNCHANGED <<clock, isPlaying, startTime, pauseTime, backingSource,
                   backingGainNode, sess, masterInputs, chain, stopPos, resumePos>>

\* The 'ended' event of source i is delivered: its onended handler runs.
OnEnded(i) ==
    /\ sess[i].status \in {"halted", "finished"}
    /\ sess' = [sess EXCEPT ![i] = Ended(sess[i], "done")]
    /\ IF OnEndedFires(sess[i].dur)
       THEN isPlaying' = FALSE /\ pauseTime' = 0
       ELSE UNCHANGED <<isPlaying, pauseTime>>
    /\ lastOp' = IF sess[i].status = "finished" /\ backingSource = i
                 THEN "endedNatural" ELSE "other"
    /\ UNCHANGED <<clock, ctxState, startTime, backingSource, backingGainNode,
                   masterInputs, chain, stopPos, resumePos>>

\* The audio thread renders a quarter second: the clock advances, and every
\* sounding source that reaches the end of its buffer finishes, which queues
\* its 'ended' event.
Tick ==
    /\ ctxState = "running"
    /\ clock < MaxClock
    /\ clock' = clock + 1
    /\ sess' = [i \in 1..Len(sess) |->
                  IF sess[i].status = "playing" /\ EndAt(sess[i]) <= clock + 1
                  THEN Ended(sess[i], "finished")
                  ELSE sess[i]]
    /\ lastOp' = "other"
    /\ UNCHANGED <<ctxState, isPlaying, startTime, pauseTime, backingSource,
                   backingGainNode, masterInputs, chain, stopPos, resumePos>>

Next ==
    \/ (\E dur \in Durations, karaoke \in BOOLEAN, volume \in Volumes :
            Play(dur, karaoke, volume)) /\ UNCHANGED <<wavVars, callVars, app>>
    \/ Stop /\ UNCHANGED <<wavVars, callVars, app>>
    \/ Reset /\ UNCHANGED <<wavVars, callVars, app>>
    \/ (\E volume \in Volumes : SetVolume(volume)) /\ UNCHANGED <<wavVars, callVars, app>>
    \/ Resume /\ UNCHANGED <<wavVars, callVars, app>>
    \/ (\E i \in 1..Len(sess) : OnEnded(i)) /\ UNCHANGED <<wavVars, callVars, app>>
    \/ Tick /\ UNCHANGED <<wavVars, callVars, app>>

Spec == Init /\ [][Next]_vars

(* ------------------------ claims on the transport ---------------------- *)

\* C1: in every reachable state at most one started buffer source is neither
\* stopped nor ended.
C1_AtMostOneSounding ==
    Cardinality({i \in 1..Len(sess) : Sounding(i)}) <= 1

\* C2: while a session that was started after a stop() at position p is
\* sounding, its source was started at offset p mod D, startTime is the clock
\* reading of that play() minus (p mod D), and getCurrentTime() e ticks after
\* that play() returns (p mod D) + e.
C2_ResumeAtStopPosition ==
    (resumePos # -1 /\ backingSource # 0 /\ Sounding(backingSource)) =>
        LET s == sess[backingSource]
            p == resumePos % s.dur
        IN  /\ s.offset = p
            /\ startTime = s.startedAt - p
            /\ GetCurrentTime = p + (clock - s.startedAt)

\* C3: getCurrentTime() returns clock - startTime whenever the engine is
\* playing and pauseTime whenever it is not.
C3_CurrentTimeQuery ==
    GetCurrentTime = IF isPlaying THEN clock - startTime ELSE pauseTime

\* C4: from a stop() of a sounding engine at position p until the next play()
\* or reset(), the engine is not playing and pauseTime is p, whatever
\* callbacks run in between.
C4_StopPreservesPosition ==
    stopPos # -1 => (~isPlaying /\ pauseTime = stopPos)

\* C5: once the 'ended' callback of the held source has run after the source
\* played its buffer to the end with no stop() in between, the engine is not
\* playing, pauseTime is 0, getCurrentTime() returns 0, and a next play() of
\* any buffer computes offset 0.
C5_NaturalEndRewinds ==
    lastOp = "endedNatural" =>
        /\ ~isPlaying
        /\ pauseTime = 0
        /\ GetCurrentTime = 0
        /\ \A dur \in Durations : PlayOffset(pauseTime, dur) = 0

\* A session resumed from a position p > 0 has played to its end and its
\* callback has run.
C5_Witness == lastOp = "endedNatural" /\ resumePos > 0

\* C6: a stop() of an engine that is not playing leaves isPlaying, pauseTime
\* and startTime as they were.
C6_StopIdempotent ==
    [][(Stop /\ ~isPlaying) => UNCHANGED <<isPlaying, pauseTime, startTime>>]_vars

\* stop() was called on a paused engine after the clock moved on from the
\* reading at which the position was stored.
C6_Witness ==
    lastOp = "stopIdle" /\ pauseTime > 0 /\ clock > startTime + pauseTime

Zeroed == ~isPlaying /\ pauseTime = 0 /\ GetCurrentTime = 0

\* C7: reset() halts the held source if it sounds and leaves the engine not
\* playing with pauseTime = 0 and getCurrentTime() = 0; from then on every step
\* but a play() (a callback, a tick, any other call) keeps it so, and a play()
\* starts its source at offset 0.
C7_ResetRewinds ==
    [][ /\ Reset => /\ Zeroed'
                    /\ backingSource' = 0
                    /\ backingSource # 0 => sess'[backingSource].status # "playing"
        /\ (Zeroed /\ Len(sess') = Len(sess)) => Zeroed'
        /\ (Zeroed /\ Len(sess') > Len(sess)) => sess'[Len(sess')].offset = 0
      ]_vars

\* reset() was called with a source halted at a position past 0.
C7_Witness ==
    /\ lastOp = "reset"
    /\ clock > startTime
    /\ \E i \in 1..Len(sess) : sess[i].status = "halted"

\* C8: after every stop() the engine holds no handle to a per-session node
\* and no per-track gain of an earlier session is connected to the master
\* gain; the chain built by the constructor is never changed.
C8_SessionNodesDiscarded ==
    /\ lastOp \in {"stop", "stopIdle", "reset"} =>
            /\ backingSource = 0
            /\ backingGainNode = 0
            /\ masterInputs = {}
    /\ chain = ConstructorChain

\* C22: in every reachable state 0 <= pauseTime <= clock and startTime >= 0;
\* every play() starts its source at the offset pauseTime mod duration, with
\* the pauseTime left by its own stop(), and sets startTime to the clock
\* reading minus that offset, so that startTime is 0 exactly when the offset
\* equals the clock reading.
C22_TimesWithinClock ==
    /\ [](/\ 0 <= pauseTime
          /\ pauseTime <= clock
          /\ startTime >= 0)
    /\ [][\A dur \in Durations, karaoke \in BOOLEAN, volume \in Volumes :
             Play(dur, karaoke, volume) =>
                 LET offset == sess'[backingSource'].offset
                 IN  /\ offset = pauseTime' % dur
                     /\ startTime' = clock - offset
                     /\ startTime' >= 0
                     /\ (startTime' = 0) <=> (offset = clock)]_vars

\* A play() made at a clock reading above 0 has just resumed at an offset
\* equal to that reading, and startTime is 0.
C22_Witness ==
    /\ isPlaying
    /\ backingSource # 0
    /\ sess[backingSource].status = "playing"
    /\ sess[backingSource].startedAt = clock
    /\ sess[backingSource].offset = clock
    /\ clock > 0
    /\ startTime = 0
    /\ lastOp = "other"

(* ------------------------------ bufferToWav ---------------------------- *)

\* Input buffers have 1..MaxChannels channels and 0..MaxFrames frames.
MaxChannels == 2

MaxFrames == 46

\* A sample is an integer n standing for the float n / SampleScale.
SampleScale == 4

\* The sample patterns offered per shape of buffer: 0..MaxSeed.
MaxSeed == 2

\* `buffer.length * numOfChan * 2 + 44` and `view.setInt16(44 + offset, ...)`
WavHeaderSize == 44

\* The two scale factors of the float-to-int conversion.
ScaleNeg == 32768

ScalePos == 32767

SampleRates == {8000, 44100}

\* Sample k of channel c (both from 0) of the pattern `seed` with peak
\* amplitude amp / SampleScale.
SampleAt(amp, seed, c, k) == ((seed + 3 * k + 5 * c) % (2 * amp + 1)) - amp

MakeBuffer(n, len, rate, amp, seed) ==
    [numberOfChannels |-> n, length |-> len, sampleRate |-> rate,
     channels |-> [c \in 1..n |-> [k \in 1..len |-> SampleAt(amp, seed, c - 1, k - 1)]]]

\* Buffers within [-1, 1] (amp = SampleScale) and buffers that exceed it.
WavInputs ==
    { MakeBuffer(n, len, rate, amp, seed) :
        n \in 1..MaxChannels, len \in 0..MaxFrames, rate \in SampleRates,
        amp \in {SampleScale, SampleScale + 1}, seed \in 0..MaxSeed }

\* Mutant of TruncDiv: Math.floor instead of | 0.
FloorDiv(a, b) == a \div b

\* x | 0 on a quotient a / b with b > 0: truncation toward zero.
TruncDiv(a, b) == IF a >= 0 THEN a \div b ELSE -((-a) \div b)

\* Math.max(-1, Math.min(1, sample))
Clamp(n) ==
    IF n > SampleScale THEN SampleScale ELSE IF n < -SampleScale THEN -SampleScale ELSE n

\* (0.5 + sample < 0 ? sample * 32768 : sample * 32767) | 0, on the clamped sample
Quantize(n) ==
    LET s == Clamp(n)
    IN  IF SampleScale + 2 * s < 0
        THEN TruncDiv(s * ScaleNeg, SampleScale)
        ELSE TruncDiv(s * ScalePos, SampleScale)

\* The `size` low bytes of data >= 0, least significant first, stored from
\* byte offset `at` (the sequence is indexed from 1): what DataView's setters
\* do with littleEndian = true.
SetLE(view, at, data, size) ==
    [j \in 1..Len(view) |->
        IF j > at /\ j <= at + size
        THEN (data \div (256 ^ (j - at - 1))) % 256
        ELSE view[j]]

\* Mutant of SetUint16: pos is advanced by 4, as setUint32 does.
SetUint16Wide(st, data) ==
    [view |-> SetLE(st.view, st.pos, data, 2), pos |-> st.pos + 4]

\* function setUint16(data) { view.setUint16(pos, data, true); pos += 2; }
SetUint16(st, data) == [view |-> SetLE(st.view, st.pos, data, 2), pos |-> st.pos + 2]

\* function setUint32(data) { view.setUint32(pos, data, true); pos += 4; }
SetUint32(st, data) == [view |-> SetLE(st.view, st.pos, data, 4), pos |-> st.pos + 4]

\* view.setInt16(at, sample, true): the value is stored modulo 2^16.
SetInt16(view, at, sample) == SetLE(view, at, sample % 65536, 2)

\* Mutant of WavLength: the channel count is left out.
WavLengthMono(buffer) == buffer.length * 2 + WavHeaderSize

\* const length = buffer.length * numOfChan * 2 + 44
WavLength(buffer) == buffer.length * buffer.numberOfChannels * 2 + WavHeaderSize

\* The thirteen header writes, in order, on the view and pos of s0; each
\* moves pos.
WavHeaderWrites(s0, buffer) ==
    LET numOfChan == buffer.numberOfChannels
        length == WavLength(buffer)
        s1  == SetUint32(s0, 1179011410)                       \* "RIFF"
        s2  == SetUint32(s1, length - 8)
        s3  == SetUint32(s2, 1163280727)                       \* "WAVE"
        s4  == SetUint32(s3, 544501094)                        \* "fmt "
        s5  == SetUint32(s4, 16)
        s6  == SetUint16(s5, 1)
        s7  == SetUint16(s6, numOfChan)
        s8  == SetUint32(s7, buffer.sampleRate)
        s9  == SetUint32(s8, buffer.sampleRate * 2 * numOfChan)
        s10 == SetUint16(s9, numOfChan * 2)
        s11 == SetUint16(s10, 16)
        s12 == SetUint32(s11, 1635017060)                      \* "data"
    IN  SetUint32(s12, length - s12.pos - 4)

\* new ArrayBuffer(length), zero filled, pos = 0, then the header writes.
WavHeader(buffer) ==
    WavHeaderWrites([view |-> [j \in 1..WavLength(buffer) |-> 0], pos |-> 0], buffer)

\* The index of the sample the frame loop reads in its iteration at `pos`.
FrameIndex(pos) == pos

RECURSIVE WriteFrame(_, _, _, _, _)
\* for (i = 0; i < numOfChan; i++) { ...; view.setInt16(44 + offset, sample, true);
\* offset += 2; } from channel i on
WriteFrame(view, buffer, pos, offset, i) ==
    IF i >= buffer.numberOfChannels
    THEN [view |-> view, offset |-> offset]
    ELSE WriteFrame(
            SetInt16(view, WavHeaderSize + offset,
                     Quantize(buffer.channels[i + 1][FrameIndex(pos) + 1])),
            buffer, pos, offset + 2, i + 1)

InitWav ==
    /\ clock = 0
    /\ ctxState = "suspended"
    /\ isPlaying = FALSE
    /\ startTime = 0
    /\ pauseTime = 0
    /\ backingSource = 0
    /\ backingGainNode = 0
    /\ sess = <<>>
    /\ masterInputs = {}
    /\ chain = ConstructorChain
    /\ lastOp = "other"
    /\ stopPos = -1
    /\ resumePos = -1
    /\ wavPc = "start"
    /\ wavBuffer \in WavInputs
    /\ wavView = <<>>
    /\ wavPos = 0
    /\ wavOffset = 0
    /\ DetOff /\ KarOff /\ LyrOff /\ ExpOff /\ AppOff

\* Lines 216-241: the ArrayBuffer is allocated (zero filled) and the header
\* written; pos is left where the last header write moved it.
WavWriteHeader ==
    /\ wavPc = "start"
    /\ LET st == WavHeader(wavBuffer)
       IN  wavView' = st.view /\ wavPos' = st.pos
    /\ wavPc' = "frames"
    /\ UNCHANGED <<wavBuffer, wavOffset, transportVars, callVars, app>>

\* One iteration of `while (pos < buffer.length)`.
WavWriteFrame ==
    /\ wavPc = "frames"
    /\ wavPos < wavBuffer.length
    /\ LET st == WriteFrame(wavView, wavBuffer, wavPos, wavOffset, 0)
       IN  wavView' = st.view /\ wavOffset' = st.offset
    /\ wavPos' = wavPos + 1
    /\ UNCHANGED <<wavPc, wavBuffer, transportVars, callVars, app>>

\* The loop condition fails: the Blob over bufferArr is returned.
WavReturn ==
    /\ wavPc = "frames"
    /\ ~(wavPos < wavBuffer.length)
    /\ wavPc' = "done"
    /\ UNCHANGED <<wavBuffer, wavView, wavPos, wavOffset, transportVars, callVars, app>>

NextWav == WavWriteHeader \/ WavWriteFrame \/ WavReturn

SpecWav == InitWav /\ [][NextWav]_vars

(* ------------------------- claims on bufferToWav ----------------------- *)

\* The unsigned little-endian value of the `size` bytes at byte offset `at`.
UintAt(view, at, size) ==
    IF size = 2
    THEN view[at + 1] + 256 * view[at + 2]
    ELSE view[at + 1] + 256 * view[at + 2] + 65536 * view[at + 3]
         + 16777216 * view[at + 4]

\* The signed 16-bit little-endian value at byte offset `at`.
Int16At(view, at) ==
    LET u == UintAt(view, at, 2) IN IF u >= 32768 THEN u - 65536 ELSE u

\* C9: the returned bytes hold exactly L frames after the 44-byte header, and
\* for every frame k < L and channel c < N the 16-bit value at byte offset
\* 44 + 2 * (k * N + c) is the quantization of channels[c][k].
C9_BodyHoldsEveryFrame ==
    wavPc = "done" =>
        LET N == wavBuffer.numberOfChannels
            L == wavBuffer.length
        IN  /\ Len(wavView) = 44 + 2 * N * L
            /\ \A k \in 0..(L - 1), c \in 0..(N - 1) :
                   Int16At(wavView, 44 + 2 * (k * N + c))
                       = Quantize(wavBuffer.channels[c + 1][k + 1])

\* A standard 16-bit PCM reader: the channel count and the length of the data
\* chunk are read from the header, frame k of channel c is the 16-bit value at
\* 44 + 2 * (k * channels + c), and a value q stands for the sample q / 32768.
ReadChannels(view) == UintAt(view, 22, 2)

ReadFrames(view) == UintAt(view, 40, 4) \div (2 * ReadChannels(view))

ReadSample(view, c, k) == Int16At(view, 44 + 2 * (k * ReadChannels(view) + c))

\* |n / SampleScale - q / 32768| <= 1 / 32767, in integers.
WithinOneStep(n, q) ==
    LET d == n * 32768 - q * SampleScale
        a == IF d >= 0 THEN d ELSE -d
    IN  a <= (SampleScale * 32768) \div 32767

InRange(buffer) ==
    \A c \in 1..buffer.numberOfChannels, k \in 1..buffer.length :
        /\ buffer.channels[c][k] >= -SampleScale
        /\ buffer.channels[c][k] <= SampleScale

\* C10: for a buffer with every sample in [-1, 1], a standard reader of the
\* returned bytes finds the buffer's channels and frames, and each sample it
\* reads is within 1/32767 of the original.
C10_RoundTrip ==
    (wavPc = "done" /\ InRange(wavBuffer)) =>
        /\ ReadChannels(wavView) = wavBuffer.numberOfChannels
        /\ ReadFrames(wavView) = wavBuffer.length
        /\ \A c \in 0..(wavBuffer.numberOfChannels - 1),
              k \in 0..(wavBuffer.length - 1) :
               WithinOneStep(wavBuffer.channels[c + 1][k + 1],
                             ReadSample(wavView, c, k))

\* The bytes of `view` from byte offset `at`, `size` of them.
BytesAt(view, at, size) == [j \in 1..size |-> view[at + j]]

\* C11: the returned bytes are 44 + 2*N*L long and begin with "RIFF",
\* length - 8, "WAVE", "fmt ", 16, format code 1, N, R, byte rate R*2*N, block
\* align N*2, 16 bits per sample, "data" and the data length 2*N*L, each
\* little-endian.
C11_Header ==
    wavPc = "done" =>
        LET N == wavBuffer.numberOfChannels
            L == wavBuffer.length
            R == wavBuffer.sampleRate
        IN  /\ Len(wavView) = 44 + 2 * N * L
            /\ BytesAt(wavView, 0, 4) = <<82, 73, 70, 70>>
            /\ UintAt(wavView, 4, 4) = Len(wavView) - 8
            /\ BytesAt(wavView, 8, 4) = <<87, 65, 86, 69>>
            /\ BytesAt(wavView, 12, 4) = <<102, 109, 116, 32>>
            /\ UintAt(wavView, 16, 4) = 16
            /\ UintAt(wavView, 20, 2) = 1
            /\ UintAt(wavView, 22, 2) = N
            /\ UintAt(wavView, 24, 4) = R
            /\ UintAt(wavView, 28, 4) = R * 2 * N
            /\ UintAt(wavView, 32, 2) = N * 2
            /\ UintAt(wavView, 34, 2) = 16
            /\ BytesAt(wavView, 36, 4) = <<100, 97, 116, 97>>
            /\ UintAt(wavView, 40, 4) = Len(wavView) - 44
            /\ UintAt(wavView, 40, 4) = 2 * N * L

\* A two-channel buffer long enough for the frame loop to have written into
\* the body has been encoded.
C11_Witness ==
    /\ wavPc = "done"
    /\ wavBuffer.numberOfChannels = 2
    /\ wavBuffer.sampleRate = 44100
    /\ wavOffset > 0

\* q is x * scale truncated toward zero, for x = c / SampleScale.
IsTruncation(q, c, scale) ==
    IF c >= 0
    THEN q * SampleScale <= c * scale /\ c * scale < (q + 1) * SampleScale
    ELSE q * SampleScale >= c * scale /\ c * scale > (q - 1) * SampleScale

\* What the conversion must give for the sample n / SampleScale: the sample
\* is clamped to [-1, 1], scaled by 32768 below -0.5 and by 32767 otherwise,
\* and truncated toward zero.
IsConversion(q, n) ==
    LET c == IF n > SampleScale THEN SampleScale
             ELSE IF n < -SampleScale THEN -SampleScale ELSE n
    IN  /\ q >= -32768 /\ q <= 32767
        /\ IF 2 * c < -SampleScale
           THEN IsTruncation(q, c, 32768)
           ELSE IsTruncation(q, c, 32767)
        /\ (c = -SampleScale) => q = -32768
        /\ (c = SampleScale) => q = 32767

\* C12: every iteration of the frame loop stores, for each channel, the
\* conversion of the sample it read (clamp, scale by 32768 below -0.5 and by
\* 32767 otherwise, truncate toward zero) as a signed 16-bit value that reads
\* back unchanged.
C12_Conversion ==
    [][wavPos' = wavPos + 1 =>
          \A c \in 0..(wavBuffer.numberOfChannels - 1) :
              IsConversion(Int16At(wavView', 44 + wavOffset + 2 * c),
                           wavBuffer.channels[c + 1][wavPos + 1])]_vars

\* The loop has stored -32768 (for -1.0) and 32767 (for a sample of 1.0 or
\* more), and a sample in [-0.5, 0) scaled by 32767.
C12_Witness ==
    /\ wavPc = "done"
    /\ wavOffset = 4 * wavBuffer.numberOfChannels
    /\ \E a, b, c \in 0..(2 * wavBuffer.numberOfChannels - 1) :
           /\ Int16At(wavView, 44 + 2 * a) = -32768
           /\ Int16At(wavView, 44 + 2 * b) = 32767
           /\ Int16At(wavView, 44 + 2 * c) < 0
           /\ Int16At(wavView, 44 + 2 * c) > -32767 \div 2

(***************************************************************************)
(* exportTrack (lines 182-213): the track is rendered offline into a       *)
(* two-channel 44100 Hz buffer and the result handed to bufferToWav.  A    *)
(* buffer is held here as its shape and the set of its non-zero samples    *)
(* <<channel, frame, value>>, the returned bytes as their count, the 44    *)
(* header bytes and the set of non-zero body bytes <<offset, byte>>.       *)
(***************************************************************************)
MaxSeconds == 2
ExportSampleRate == 44100
ExportVolumes == {0, 1}

RECURSIVE Gcd(_, _)
Gcd(a, b) == IF b = 0 THEN a ELSE Gcd(b, a % b)

\* new OfflineAudioContext(2, sampleRate * duration, sampleRate): the length
\* argument 44100 * (len / rate) is truncated to an integer.
RenderLength(len, rate) ==
    LET g == Gcd(ExportSampleRate, rate)
    IN  ((ExportSampleRate \div g) * len) \div (rate \div g)

Sparse(buffer) ==
    [numberOfChannels |-> buffer.numberOfChannels, length |-> buffer.length,
     sampleRate |-> buffer.sampleRate,
     nonzero |-> { <<p[1], p[2], buffer.channels[p[1] + 1][p[2] + 1]>> :
                     p \in { q \in (0..(buffer.numberOfChannels - 1))
                                     \X (0..(buffer.length - 1)) :
                               buffer.channels[q[1] + 1][q[2] + 1] # 0 } }]

SilentBuffer(n, len, rate) ==
    [numberOfChannels |-> n, length |-> len, sampleRate |-> rate, nonzero |-> {}]

\* Short buffers, silent or not, and silent stereo buffers of whole seconds.
ExportInputs ==
    { Sparse(MakeBuffer(n, len, rate, amp, seed)) :
        n \in 1..MaxChannels, len \in 1..MaxFrames, rate \in SampleRates,
        amp \in {0, SampleScale}, seed \in 0..MaxSeed }
    \cup { SilentBuffer(2, s * ExportSampleRate, ExportSampleRate) : s \in 1..MaxSeconds }

IsSilent(buffer) == buffer.nonzero = {}

\* What offlineCtx.startRendering() may resolve to.  The buffer always has 2
\* channels, RenderLength frames and the rate 44100.  A silent source, or a
\* gain of 0, renders silence; a 44100 Hz source played straight into a gain
\* of 1 renders its own samples (a mono source on both channels, of a wider
\* source the first two channels); a resampled or filtered source renders
\* samples that the rendering engine decides.
Rendered(buffer, useKaraoke, volume) ==
    LET len == RenderLength(buffer.length, buffer.sampleRate)
    IN  IF IsSilent(buffer) \/ volume = 0
        THEN { SilentBuffer(2, len, ExportSampleRate) }
        ELSE IF ~useKaraoke /\ buffer.sampleRate = ExportSampleRate
        THEN { [numberOfChannels |-> 2, length |-> len, sampleRate |-> ExportSampleRate,
                nonzero |-> IF buffer.numberOfChannels = 1
                            THEN { <<c, t[2], t[3]>> : c \in 0..1, t \in buffer.nonzero }
                            ELSE { t \in buffer.nonzero : t[1] < 2 }] }
        ELSE { Sparse(MakeBuffer(2, len, ExportSampleRate, SampleScale, seed)) :
                 seed \in 0..MaxSeed }

\* The non-zero body bytes once the frame loop has ended, `first` being the
\* value of pos the header writes have left: the iteration at pos reads
\* frame pos (FrameIndex) and writes channel c of it, low byte first, at body
\* offset 2 * ((pos - first) * numOfChan + c); a zero sample is written as two
\* zero bytes and the bytes the loop does not reach stay 0.
BodyBytes(buffer, first) ==
    LET read == { t \in buffer.nonzero : t[2] >= first /\ t[2] < buffer.length }
        At(t) == 2 * ((t[2] - first) * buffer.numberOfChannels + t[1])
        Word(t) == Quantize(t[3]) % 65536
    IN  { b \in { <<At(t) + i, (Word(t) \div (256 ^ i)) % 256>> : t \in read, i \in 0..1 } :
            b[2] # 0 }

\* bufferToWav as one step: the length of the ArrayBuffer, the header, which
\* the thirteen writes confine to the first 44 bytes, and the body.
BufferToWav(buffer) ==
    LET st == WavHeaderWrites([view |-> [j \in 1..WavHeaderSize |-> 0], pos |-> 0], buffer)
    IN  [length |-> WavLength(buffer),
         header |-> st.view,
         body |-> BodyBytes(buffer, st.pos)]

NoBuffer == SilentBuffer(0, 0, 0)
NoBlob == [length |-> 0, header |-> <<>>, body |-> {}]

InitExport ==
    /\ clock = 0
    /\ ctxState = "suspended"
    /\ isPlaying = FALSE
    /\ startTime = 0
    /\ pauseTime = 0
    /\ backingSource = 0
    /\ backingGainNode = 0
    /\ sess = <<>>
    /\ masterInputs = {}
    /\ chain = ConstructorChain
    /\ lastOp = "other"
    /\ stopPos = -1
    /\ resumePos = -1
    /\ WavOff /\ DetOff /\ KarOff /\ LyrOff /\ AppOff
    /\ \E b \in ExportInputs, k \in BOOLEAN, v \in ExportVolumes :
           exp = [pc |-> "start", buffer |-> b, useKaraoke |-> k, volume |-> v,
                  rendered |-> NoBuffer, blob |-> NoBlob]

\* Lines 187-211: the graph is built on the offline context and rendered.
ExportRender ==
    /\ exp.pc = "start"
    /\ \E r \in Rendered(exp.buffer, exp.useKaraoke, exp.volume) :
           exp' = [exp EXCEPT !.pc = "rendered", !.rendered = r]
    /\ UNCHANGED <<transportVars, wavVars, det, kar, lyr, app>>

\* Line 212: return this.bufferToWav(renderedBuffer)
ExportToWav ==
    /\ exp.pc = "rendered"
    /\ exp' = [exp EXCEPT !.pc = "done", !.blob = BufferToWav(exp.rendered)]
    /\ UNCHANGED <<transportVars, wavVars, det, kar, lyr, app>>

NextExport == ExportRender \/ ExportToWav

SpecExport == InitExport /\ [][NextExport]_vars

\* The export of the scenario: a silent 2-channel, 2-second, 44100 Hz buffer,
\* karaoke off, volume 1.0, has completed.
SilentStereoExported ==
    /\ exp.pc = "done"
    /\ exp.buffer.numberOfChannels = 2
    /\ exp.buffer.sampleRate = 44100
    /\ exp.buffer.length = 2 * 44100
    /\ IsSilent(exp.buffer)
    /\ ~exp.useKaraoke
    /\ exp.volume = 1

\* C13 (as amended): exporting a silent 2-channel, 2-second, 44100 Hz buffer
\* with karaoke off and volume 1.0 gives a 44-byte header followed by exactly
\* 2*2*44100*2 = 352800 zero bytes of PCM data, 352844 bytes in all.
C13_SilentStereoExport ==
    SilentStereoExported =>
        /\ exp.blob.length = 352844
        /\ exp.blob.length = 44 + 2 * 2 * 44100 * 2
        /\ Len(exp.blob.header) = 44
        /\ BytesAt(exp.blob.header, 0, 4) = <<82, 73, 70, 70>>
        /\ UintAt(exp.blob.header, 4, 4) = 352836
        /\ UintAt(exp.blob.header, 22, 2) = 2
        /\ UintAt(exp.blob.header, 24, 4) = 44100
        /\ BytesAt(exp.blob.header, 36, 4) = <<100, 97, 116, 97>>
        /\ UintAt(exp.blob.header, 40, 4) = 352800
        /\ exp.blob.body = {}

C13_Witness == SilentStereoExported /\ exp.blob.length > 44

\* C13 as stated: the total length of that export is 176444 bytes.
C13_TotalLength176444 ==
    SilentStereoExported => exp.blob.length = 176444

(***************************************************************************)
(* detectVocalStartTime (lines 45-76).  A signal is held as blocks of      *)
(* BlockSize samples of one amplitude each, the amplitudes in units whose  *)
(* size does not matter to the detector.  An energy sqrt(s / n) is held as *)
(* the pair of s, in squared units times BlockSize, and n, in blocks;      *)
(* energies are compared by their squares.  The returned time is held in   *)
(* tenths of a second.                                                     *)
(***************************************************************************)
MaxWindows == 4
DetRates == {8000, 12000}
DetAmps == {0, 5, 8, 40}

\* Math.floor(sampleRate * 0.1)
WindowSize(rate) == rate \div 10

\* The largest block that divides the window of every rate of DetRates.
BlockSize == Gcd(WindowSize(8000), WindowSize(12000))

\* A signal that is constant over each of its full windows, followed by
\* `tail` further blocks of amplitude tailAmp.
DetBuffer(rate, ws, tail, tailAmp) ==
    LET wb == WindowSize(rate) \div BlockSize
        n == Len(ws) * wb + tail
    IN  [length |-> n * BlockSize, sampleRate |-> rate,
         blocks |-> [k \in 1..n |->
                        IF k <= Len(ws) * wb THEN ws[((k - 1) \div wb) + 1] ELSE tailAmp]]

DetInputs ==
    { DetBuffer(rate, ws, tail, tailAmp) :
        rate \in DetRates,
        ws \in UNION { [1..n -> DetAmps] : n \in 0..MaxWindows },
        tail \in 0..1, tailAmp \in DetAmps }

\* left[k], k a sample index
Left(buffer, k) == buffer.blocks[(k \div BlockSize) + 1]

RECURSIVE SumSq(_, _, _, _, _)
\* for (j = 0; j < windowSize && (i + j) < maxSamples; j++)
\*     sumSq += left[i + j] * left[i + j];          taken a block at a time
SumSq(buffer, i, j, windowSize, maxSamples) ==
    IF j < windowSize /\ i + j < maxSamples
    THEN Left(buffer, i + j) * Left(buffer, i + j)
             + SumSq(buffer, i, j + BlockSize, windowSize, maxSamples)
    ELSE 0

\* const rms = Math.sqrt(sumSq / windowSize)
WindowEnergy(buffer, i, windowSize, maxSamples) ==
    [sumSq |-> SumSq(buffer, i, 0, windowSize, maxSamples),
     over |-> windowSize \div BlockSize]

\* rms > maxRms
Greater(e, m) == e.sumSq * m.over > m.sumSq * e.over

\* energies[i] > threshold, with threshold = maxRms * 0.15 (0.15^2 = 9/400)
AboveThreshold(e, maxRms) == 400 * e.sumSq * maxRms.over > 9 * maxRms.sumSq * e.over

InitDetect ==
    /\ clock = 0
    /\ ctxState = "suspended"
    /\ isPlaying = FALSE
    /\ startTime = 0
    /\ pauseTime = 0
    /\ backingSource = 0
    /\ backingGainNode = 0
    /\ sess = <<>>
    /\ masterInputs = {}
    /\ chain = ConstructorChain
    /\ lastOp = "other"
    /\ stopPos = -1
    /\ resumePos = -1
    /\ WavOff /\ KarOff /\ LyrOff /\ ExpOff /\ AppOff
    /\ \E b \in DetInputs :
           det = [pc |-> "windows", buffer |-> b,
                  maxSamples |-> IF b.length < b.sampleRate * 60
                                 THEN b.length ELSE b.sampleRate * 60,
                  windowSize |-> WindowSize(b.sampleRate),
                  maxRms |-> [sumSq |-> 0, over |-> 1],
                  energies |-> <<>>, i |-> 0, sustainedCount |-> 0, result |-> -1]

\* One iteration of the loop of lines 53-61.
DetectWindow ==
    /\ det.pc = "windows"
    /\ det.i < det.maxSamples
    /\ LET rms == WindowEnergy(det.buffer, det.i, det.windowSize, det.maxSamples)
       IN  det' = [det EXCEPT !.energies = Append(@, rms),
                              !.maxRms = IF Greater(rms, @) THEN rms ELSE @,
                              !.i = @ + det.windowSize]
    /\ UNCHANGED <<transportVars, wavVars, kar, lyr, exp, app>>

\* The loop ends; lines 63-65: threshold, sustainedCount = 0, i = 0.
DetectThreshold ==
    /\ det.pc = "windows"
    /\ ~(det.i < det.maxSamples)
    /\ det' = [det EXCEPT !.pc = "scan", !.i = 0, !.sustainedCount = 0]
    /\ UNCHANGED <<transportVars, wavVars, kar, lyr, exp, app>>

\* One iteration of the loop of lines 65-74.
DetectScan ==
    /\ det.pc = "scan"
    /\ det.i < Len(det.energies)
    /\ IF AboveThreshold(det.energies[det.i + 1], det.maxRms)
       THEN IF det.sustainedCount + 1 >= 3
            THEN det' = [det EXCEPT !.sustainedCount = @ + 1, !.pc = "done",
                                    !.result = IF det.i - 2 > 0 THEN det.i - 2 ELSE 0]
            ELSE det' = [det EXCEPT !.sustainedCount = @ + 1, !.i = @ + 1]
       ELSE det' = [det EXCEPT !.sustainedCount = 0, !.i = @ + 1]
    /\ UNCHANGED <<transportVars, wavVars, kar, lyr, exp, app>>

\* Line 75: return 0
DetectReturnZero ==
    /\ det.pc = "scan"
    /\ ~(det.i < Len(det.energies))
    /\ det' = [det EXCEPT !.pc = "done", !.result = 0]
    /\ UNCHANGED <<transportVars, wavVars, kar, lyr, exp, app>>

NextDetect == DetectWindow \/ DetectThreshold \/ DetectScan \/ DetectReturnZero

SpecDetect == InitDetect /\ [][NextDetect]_vars

(***************************************************************************)
(* Claims on detectVocalStartTime.  The reference is written in blocks:    *)
(* window w of the reference covers the blocks [w*W, min((w+1)*W, M)) and  *)
(* its energy is the root of the mean square over the blocks it covers.    *)
(***************************************************************************)
\* W = round(sampleRate * 0.1) and M = min(frameCount, 60 * sampleRate)
RefW(buffer) == ((buffer.sampleRate + 5) \div 10) \div BlockSize
RefM(buffer) ==
    (IF buffer.length < 60 * buffer.sampleRate THEN buffer.length
     ELSE 60 * buffer.sampleRate) \div BlockSize

RefCount(buffer) == (RefM(buffer) + RefW(buffer) - 1) \div RefW(buffer)

RECURSIVE RefSum(_, _, _)
\* The sum of the squares of the blocks a+1 .. b.
RefSum(buffer, a, b) ==
    IF a >= b THEN 0 ELSE buffer.blocks[b] * buffer.blocks[b] + RefSum(buffer, a, b - 1)

RefEnergy(buffer, w) ==
    LET from == w * RefW(buffer)
        to == IF (w + 1) * RefW(buffer) < RefM(buffer)
              THEN (w + 1) * RefW(buffer) ELSE RefM(buffer)
    IN  [sumSq |-> RefSum(buffer, from, to), over |-> to - from]

\* sqrt(e.sumSq / e.over) > 0.15 * maxRMS
RefAbove(buffer, w) ==
    LET e == RefEnergy(buffer, w)
    IN  \E x \in 0..(RefCount(buffer) - 1) :
            LET m == RefEnergy(buffer, x)
            IN  /\ \A y \in 0..(RefCount(buffer) - 1) :
                       RefEnergy(buffer, y).sumSq * m.over <= m.sumSq * RefEnergy(buffer, y).over
                /\ 400 * e.sumSq * m.over > 9 * m.sumSq * e.over

\* The first windows of the runs of three consecutive windows above 0.15 x maxRMS.
RefRunStarts(buffer) ==
    { w \in 0..(RefCount(buffer) - 3) :
        RefAbove(buffer, w) /\ RefAbove(buffer, w + 1) /\ RefAbove(buffer, w + 2) }

\* C14: for every buffer in which some three consecutive 0.1-second windows
\* have an RMS strictly above 0.15 x maxRMS, the detector returns 0.1 x the
\* index of the first window of the earliest such run.
C14_ReturnsEarliestRun ==
    (det.pc = "done" /\ RefRunStarts(det.buffer) # {}) =>
        /\ det.result \in RefRunStarts(det.buffer)
        /\ \A w \in RefRunStarts(det.buffer) : det.result <= w

\* C15: the detector returns 0.0 for every buffer that has no run of three
\* consecutive windows with an RMS above 0.15 x maxRMS.
C15_ZeroWithoutRun ==
    (det.pc = "done" /\ RefRunStarts(det.buffer) = {}) => det.result = 0

\* C19: the energies the detector computes are those of the reference, window
\* by window: the root of the mean square over the samples the window
\* actually holds, a final short window included.
C19_EnergiesMatchReference ==
    det.pc \in {"scan", "done"} =>
        /\ Len(det.energies) = RefCount(det.buffer)
        /\ \A w \in 0..(RefCount(det.buffer) - 1) :
               LET e == det.energies[w + 1]
                   r == RefEnergy(det.buffer, w)
               IN  e.sumSq * r.over = r.sumSq * e.over

(***************************************************************************)
(* createKaraokeBuffer (lines 78-101).  Buffers live on a heap and are     *)
(* named by their place in it, so that "the same buffer" and "a new        *)
(* buffer" differ.  After a first call has returned T, the caller may swap *)
(* the two channels of T into a buffer of its own and call again.          *)
(***************************************************************************)
MaxKarFrames == 2
KarChannels == 1..3
KarSamples == {-SampleScale, 0, SampleScale}

\* An input buffer: n channels of len samples each.
KarBuffer(n, len, rate, ch) ==
    [numberOfChannels |-> n, length |-> len, sampleRate |-> rate, channels |-> ch]

\* ctx.createBuffer(2, length, sampleRate): zero filled
CreateBuffer(n, length, sampleRate) ==
    [numberOfChannels |-> n, length |-> length, sampleRate |-> sampleRate,
     channels |-> [c \in 1..n |-> [k \in 1..length |-> 0]]]

\* Mutant of Side: the sum of the channels.
Mid(l, r) == l + r

\* const side = l - r; const mixed = side;
Side(l, r) == l - r

InitKaraoke ==
    /\ clock = 0
    /\ ctxState = "suspended"
    /\ isPlaying = FALSE
    /\ startTime = 0
    /\ pauseTime = 0
    /\ backingSource = 0
    /\ backingGainNode = 0
    /\ sess = <<>>
    /\ masterInputs = {}
    /\ chain = ConstructorChain
    /\ lastOp = "other"
    /\ stopPos = -1
    /\ resumePos = -1
    /\ WavOff /\ DetOff /\ LyrOff /\ ExpOff /\ AppOff
    /\ \E n \in KarChannels, len \in 0..MaxKarFrames, rate \in SampleRates :
           \E ch \in [1..n -> [1..len -> KarSamples]] :
               LET b == KarBuffer(n, len, rate, ch)
               IN  kar = [pc |-> "call", heap |-> <<b>>, originalBuffer |-> 1, before |-> b,
                          newBuffer |-> 0, i |-> 0, pass |-> 1, ret |-> 0]

\* Line 80: a buffer of fewer than 2 channels is returned as it is.
KaraokeReturnOriginal ==
    /\ kar.pc = "call"
    /\ kar.heap[kar.originalBuffer].numberOfChannels < 2
    /\ kar' = [kar EXCEPT !.pc = "returned", !.ret = kar.originalBuffer]
    /\ UNCHANGED <<transportVars, wavVars, det, lyr, exp, app>>

\* Lines 82-89: the output buffer is created.
KaraokeCreate ==
    /\ kar.pc = "call"
    /\ ~(kar.heap[kar.originalBuffer].numberOfChannels < 2)
    /\ LET o == kar.heap[kar.originalBuffer]
       IN  kar' = [kar EXCEPT !.pc = "loop", !.i = 0,
                              !.heap = Append(@, CreateBuffer(2, o.length, o.sampleRate)),
                              !.newBuffer = Len(kar.heap) + 1]
    /\ UNCHANGED <<transportVars, wavVars, det, lyr, exp, app>>

\* One iteration of the loop of lines 91-99.
KaraokeStep ==
    /\ kar.pc = "loop"
    /\ kar.i < kar.heap[kar.originalBuffer].length
    /\ LET l == kar.heap[kar.originalBuffer].channels[1][kar.i + 1]
           r == kar.heap[kar.originalBuffer].channels[2][kar.i + 1]
           mixed == Side(l, r)
       IN  kar' = [kar EXCEPT !.heap[kar.newBuffer].channels[1][kar.i + 1] = mixed,
                              !.heap[kar.newBuffer].channels[2][kar.i + 1] = mixed,
                              !.i = @ + 1]
    /\ UNCHANGED <<transportVars, wavVars, det, lyr, exp, app>>

\* Mutant of KaraokeReturn: the input buffer is returned.
KaraokeReturnInput ==
    /\ kar.pc = "loop"
    /\ ~(kar.i < kar.heap[kar.originalBuffer].length)
    /\ kar' = [kar EXCEPT !.pc = "returned", !.ret = kar.originalBuffer]
    /\ UNCHANGED <<transportVars, wavVars, det, lyr, exp, app>>

\* Line 100: return newBuffer
KaraokeReturn ==
    /\ kar.pc = "loop"
    /\ ~(kar.i < kar.heap[kar.originalBuffer].length)
    /\ kar' = [kar EXCEPT !.pc = "returned", !.ret = kar.newBuffer]
    /\ UNCHANGED <<transportVars, wavVars, det, lyr, exp, app>>

\* The caller copies the returned two-channel buffer with its channels
\* swapped and calls createKaraokeBuffer on the copy.
KaraokeSwapAndCall ==
    /\ kar.pc = "returned"
    /\ kar.pass = 1
    /\ kar.heap[kar.ret].numberOfChannels = 2
    /\ LET t == kar.heap[kar.ret]
           swapped == [t EXCEPT !.channels = <<t.channels[2], t.channels[1]>>]
       IN  kar' = [kar EXCEPT !.pc = "call", !.pass = 2,
                              !.heap = Append(@, swapped),
                              !.originalBuffer = Len(kar.heap) + 1,
                              !.before = swapped,
                              !.newBuffer = 0, !.i = 0, !.ret = 0]
    /\ UNCHANGED <<transportVars, wavVars, det, lyr, exp, app>>

NextKaraoke ==
    \/ KaraokeReturnOriginal
    \/ KaraokeCreate
    \/ KaraokeStep
    \/ KaraokeReturn
    \/ KaraokeSwapAndCall

SpecKaraoke == InitKaraoke /\ [][NextKaraoke]_vars

(***************************************************************************)
(* Claims on createKaraokeBuffer                                           *)
(***************************************************************************)
\* A call on a buffer of at least two channels has returned.
KaraokeReturned ==
    /\ kar.pc = "returned"
    /\ kar.before.numberOfChannels >= 2

\* C16: for an input of at least 2 channels, L frames and rate R, the call
\* returns a new buffer, distinct from the input, of exactly 2 channels, L
\* frames and rate R, whose two channels both hold left[i] - right[i] at every
\* index i; the input holds afterwards the samples it held before.
C16_SideInBothChannels ==
    KaraokeReturned =>
        LET in == kar.before
            out == kar.heap[kar.ret]
        IN  /\ kar.ret # kar.originalBuffer
            /\ kar.ret \notin 1..(kar.originalBuffer)
            /\ out.numberOfChannels = 2
            /\ out.length = in.length
            /\ out.sampleRate = in.sampleRate
            /\ Len(out.channels) = 2
            /\ \A c \in 1..2 :
                   /\ Len(out.channels[c]) = in.length
                   /\ \A i \in 1..in.length :
                          out.channels[c][i] = in.channels[1][i] - in.channels[2][i]
            /\ kar.heap[kar.originalBuffer] = in

\* A first call on a three-channel buffer has returned a buffer that holds a
\* non-zero difference where the two channels' sum is zero.
C16_Witness ==
    /\ KaraokeReturned
    /\ kar.pass = 1
    /\ kar.before.numberOfChannels = 3
    /\ kar.before.length = MaxKarFrames
    /\ \E i \in 1..kar.before.length :
           /\ kar.heap[kar.ret].channels[1][i] = 2 * SampleScale
           /\ kar.before.channels[1][i] + kar.before.channels[2][i] = 0

\* The second call of the double pass has returned: b is the buffer the first
\* call was made on, a stereo buffer.
DoublePassReturned ==
    /\ kar.pc = "returned"
    /\ kar.pass = 2
    /\ kar.heap[1].numberOfChannels = 2

\* C17 (as amended): for every stereo buffer b, with T = createKaraokeBuffer(b),
\* applying createKaraokeBuffer to T with its two channels swapped gives 0 in
\* both channels at every index: the two channels of T are equal, so their
\* difference vanishes.
C17_DoublePassIsSilent ==
    DoublePassReturned =>
        LET out == kar.heap[kar.ret]
        IN  /\ out.numberOfChannels = 2
            /\ out.length = kar.heap[1].length
            /\ \A c \in 1..2 : \A i \in 1..out.length : out.channels[c][i] = 0

\* The double pass has been made on a stereo buffer whose channels differ
\* somewhere.
C17_Witness ==
    /\ DoublePassReturned
    /\ kar.heap[1].length = MaxKarFrames
    /\ \E i \in 1..kar.heap[1].length :
           kar.heap[1].channels[1][i] # kar.heap[1].channels[2][i]

\* C17 as stated: the double pass gives -(left[i] - right[i]) in both channels
\* at every index.
C17_DoublePassNegates ==
    DoublePassReturned =>
        LET b == kar.heap[1]
            out == kar.heap[kar.ret]
        IN  \A c \in 1..2 : \A i \in 1..b.length :
                out.channels[c][i] = -(b.channels[1][i] - b.channels[2][i])

\* C20: for every stereo input whose samples all lie in [-1, 1], every sample
\* of both channels of the output lies in [-1, 1].
C20_OutputInRange ==
    (/\ KaraokeReturned
     /\ kar.before.numberOfChannels = 2
     /\ \A c \in 1..2 : \A i \in 1..kar.before.length :
            /\ kar.before.channels[c][i] >= -SampleScale
            /\ kar.before.channels[c][i] <= SampleScale)
    => \A c \in 1..2 : \A i \in 1..kar.heap[kar.ret].length :
            /\ kar.heap[kar.ret].channels[c][i] >= -SampleScale
            /\ kar.heap[kar.ret].channels[c][i] <= SampleScale

(***************************************************************************)
(* generateParodyLyrics (geminiService.ts, lines 11-94).  Whether the      *)
(* client can be constructed, whether the remote call resolves, and what   *)
(* text it resolves with, are the environment's choice.                    *)
(***************************************************************************)
Topics == {"", "cats", "taxes"}
AudioArgs == {[given |-> FALSE, data |-> ""], [given |-> TRUE, data |-> ""],
              [given |-> TRUE, data |-> "UklGRg=="]}
MimeTypes == {"audio/mp3", "audio/wav"}

\* What `response.text` may be: absent, or a string.
ResponseTexts ==
    {[defined |-> FALSE, text |-> ""]}
    \cup { [defined |-> TRUE, text |-> t] :
             t \in {"", "Sorry, I cannot help with that.",
                    "{\"segments\":[],\"performanceStyle\":\"Rap\",\"voiceAnalysis\":\"Pop\"}",
                    "{\"segments\":[{\"startTime\":1,\"endTime\":2,\"text\":\"la\"}],\"performanceStyle\":\"Rap\",\"voiceAnalysis\":\"Pop\"}"} }

\* JSON.parse(text): the value parsed, or a SyntaxError.
JsonParse(text) ==
    CASE text = "{\"segments\":[],\"performanceStyle\":\"Rap\",\"voiceAnalysis\":\"Pop\"}" ->
           [ok |-> TRUE,
            value |-> [segments |-> <<>>, performanceStyle |-> "Rap", voiceAnalysis |-> "Pop"]]
      [] text = "{\"segments\":[{\"startTime\":1,\"endTime\":2,\"text\":\"la\"}],\"performanceStyle\":\"Rap\",\"voiceAnalysis\":\"Pop\"}" ->
           [ok |-> TRUE,
            value |-> [segments |-> <<[startTime |-> 1, endTime |-> 2, text |-> "la"]>>,
                       performanceStyle |-> "Rap", voiceAnalysis |-> "Pop"]]
      [] OTHER -> [ok |-> FALSE, value |-> [segments |-> <<>>, performanceStyle |-> "",
                                              voiceAnalysis |-> ""]]

\* Lines 85-92: the value the catch block returns.
LyricsFallback ==
    [segments |-> <<[startTime |-> 0, endTime |-> 5, text |-> "Error generating lyrics."],
                    [startTime |-> 5, endTime |-> 10,
                     text |-> "Please try again with a clear audio file."]>>,
     performanceStyle |-> "Spoken word",
     voiceAnalysis |-> "Error analyzing audio."]

\* Lines 34-44: the parts of the request; `if (audioBase64)` is false for "".
LyricsParts(topic, audio, mimeType) ==
    IF audio.given /\ audio.data # ""
    THEN <<[text |-> topic], [inlineData |-> [mimeType |-> mimeType, data |-> audio.data]]>>
    ELSE <<[text |-> topic, note |-> "No audio provided"]>>

NoValue == [segments |-> <<>>, performanceStyle |-> "", voiceAnalysis |-> ""]

InitLyrics ==
    /\ clock = 0
    /\ ctxState = "suspended"
    /\ isPlaying = FALSE
    /\ startTime = 0
    /\ pauseTime = 0
    /\ backingSource = 0
    /\ backingGainNode = 0
    /\ sess = <<>>
    /\ masterInputs = {}
    /\ chain = ConstructorChain
    /\ lastOp = "other"
    /\ stopPos = -1
    /\ resumePos = -1
    /\ WavOff /\ DetOff /\ KarOff /\ ExpOff /\ AppOff
    /\ \E t \in Topics, a \in AudioArgs, m \in MimeTypes :
           lyr = [pc |-> "start", topic |-> t, audio |-> a,
                  mimeType |-> m,
                  parts |-> <<>>, response |-> [defined |-> FALSE, text |-> ""],
                  failure |-> "none", outcome |-> "pending", value |-> NoValue]

\* Line 16, getAI() throws (the constructor, or the read of process.env): the
\* call is outside the try block, so the promise of the async function rejects.
LyricsGetAIThrows ==
    /\ lyr.pc = "start"
    /\ lyr' = [lyr EXCEPT !.pc = "done", !.failure = "client", !.outcome = "rejected"]
    /\ UNCHANGED <<transportVars, wavVars, det, kar, exp, app>>

\* Lines 16-66: the client is constructed and the request built.
LyricsBuildRequest ==
    /\ lyr.pc = "start"
    /\ lyr' = [lyr EXCEPT !.pc = "awaiting",
                          !.parts = LyricsParts(lyr.topic, lyr.audio, lyr.mimeType)]
    /\ UNCHANGED <<transportVars, wavVars, det, kar, exp, app>>

\* Line 69: the awaited call rejects; control passes to the catch block.
LyricsCallRejects ==
    /\ lyr.pc = "awaiting"
    /\ lyr' = [lyr EXCEPT !.pc = "caught", !.failure = "rejects"]
    /\ UNCHANGED <<transportVars, wavVars, det, kar, exp, app>>

\* Lines 69-78: the awaited call resolves; const text = response.text.
LyricsCallResolves ==
    /\ lyr.pc = "awaiting"
    /\ \E r \in ResponseTexts : lyr' = [lyr EXCEPT !.pc = "resolved", !.response = r]
    /\ UNCHANGED <<transportVars, wavVars, det, kar, exp, app>>

\* Lines 79-81: an absent or empty text throws, as does a text that
\* JSON.parse rejects; any other text is parsed and returned.
LyricsParse ==
    /\ lyr.pc = "resolved"
    /\ IF ~lyr.response.defined \/ lyr.response.text = ""
       THEN lyr' = [lyr EXCEPT !.pc = "caught", !.failure = "empty"]
       ELSE IF ~JsonParse(lyr.response.text).ok
       THEN lyr' = [lyr EXCEPT !.pc = "caught", !.failure = "invalid"]
       ELSE lyr' = [lyr EXCEPT !.pc = "done", !.outcome = "returned",
                               !.value = JsonParse(lyr.response.text).value]
    /\ UNCHANGED <<transportVars, wavVars, det, kar, exp, app>>

\* Lines 82-93: the catch block returns the fallback.
LyricsCatch ==
    /\ lyr.pc = "caught"
    /\ lyr' = [lyr EXCEPT !.pc = "done", !.outcome = "returned", !.value = LyricsFallback]
    /\ UNCHANGED <<transportVars, wavVars, det, kar, exp, app>>

NextLyrics ==
    \/ LyricsGetAIThrows
    \/ LyricsBuildRequest
    \/ LyricsCallRejects
    \/ LyricsCallResolves
    \/ LyricsParse
    \/ LyricsCatch

SpecLyrics == InitLyrics /\ [][NextLyrics]_vars

\* C18: on any failure of lyric generation (the client cannot be constructed,
\* the remote call rejects, the response text is empty, the response is not
\* valid JSON) the call does not throw and returns exactly the fallback: the
\* segments {0, 5, "Error generating lyrics."} and {5, 10, "Please try again
\* with a clear audio file."} with the placeholder style and analysis.
C18_FailureGivesFallback ==
    (lyr.pc = "done" /\ lyr.failure # "none") =>
        /\ lyr.outcome = "returned"
        /\ lyr.value.segments =
               <<[startTime |-> 0, endTime |-> 5, text |-> "Error generating lyrics."],
                 [startTime |-> 5, endTime |-> 10,
                  text |-> "Please try again with a clear audio file."]>>
        /\ lyr.value.performanceStyle = "Spoken word"
        /\ lyr.value.voiceAnalysis = "Error analyzing audio."

(***************************************************************************)
(* The App component (elevenLabsService.ts) and the one AudioEngine it     *)
(* drives.  Each handler runs to its end, the state it sets included,      *)
(* before the next event is taken.                                         *)
(***************************************************************************)
\* Lines 116-117, 135-136: backingBuffer null (0), isPlaying false,
\* karaokeMode true, backingVolume 0.8.
AppMounted ==
    [pc |-> "mounted", isPlaying |-> FALSE, backingBuffer |-> 0,
     karaokeMode |-> TRUE, backingVolume |-> 80]

InitApp ==
    /\ InitTransport
    /\ WavOff /\ DetOff /\ KarOff /\ LyrOff /\ ExpOff
    /\ app = AppMounted

\* handleFileUpload: the decoded buffer, of duration dur, becomes backingBuffer.
HandleFileUpload(dur) ==
    /\ app.backingBuffer = 0
    /\ app' = [app EXCEPT !.backingBuffer = dur]
    /\ UNCHANGED <<transportVars, wavVars, callVars>>

\* togglePlay; its button is disabled while backingBuffer is null.
TogglePlay ==
    /\ app.backingBuffer # 0
    /\ IF app.isPlaying
       THEN /\ Stop
            /\ app' = [app EXCEPT !.isPlaying = FALSE]
       ELSE /\ Play(app.backingBuffer, app.karaokeMode, app.backingVolume)
            /\ app' = [app EXCEPT !.isPlaying = TRUE]
    /\ UNCHANGED <<wavVars, callVars>>

\* updateBackingVolume; the slider is shown while backingBuffer is set.
UpdateBackingVolume(vol) ==
    /\ app.backingBuffer # 0
    /\ SetVolume(vol)
    /\ app' = [app EXCEPT !.backingVolume = vol]
    /\ UNCHANGED <<wavVars, callVars>>

\* onClick={() => setKaraokeMode(!karaokeMode)}
ToggleKaraokeMode ==
    /\ app' = [app EXCEPT !.karaokeMode = ~@]
    /\ UNCHANGED <<transportVars, wavVars, callVars>>

\* resetAll
ResetAll ==
    /\ Reset
    /\ app' = [app EXCEPT !.isPlaying = FALSE, !.backingBuffer = 0, !.backingVolume = 80]
    /\ UNCHANGED <<wavVars, callVars>>

NextApp ==
    \/ \E dur \in Durations : HandleFileUpload(dur)
    \/ TogglePlay
    \/ \E vol \in Volumes : UpdateBackingVolume(vol)
    \/ ToggleKaraokeMode
    \/ ResetAll
    \/ (\E i \in 1..Len(sess) : OnEnded(i)) /\ UNCHANGED <<wavVars, callVars, app>>
    \/ Tick /\ UNCHANGED <<wavVars, callVars, app>>

SpecApp == InitApp /\ [][NextApp]_vars

\* C21: after every event has been handled (togglePlay, resetAll, the 'ended'
\* callback of a source), App's isPlaying equals the engine's isPlaying.
C21_PlayingFlagAgrees == app.isPlaying = isPlaying

====
